---- MODULE Spec2Model ----
(***************************************************************************)
(* The quadratic program controller of lyapy                               *)
(* (lyapy/controllers/qp_controller.py): one QPController object, built    *)
(* by its constructor or by one of the two factories, and then driven by   *)
(* calls of its control law u(x, t).                                       *)
(*                                                                         *)
(* Values are integers.  A coefficient function (a Python closure of       *)
(* (x, t)) is the table of its values over the states and times of the     *)
(* model.  A vector is a sequence of integers, a matrix a sequence of      *)
(* rows.  The scalar cost term r is a rational [num, den] because          *)
(* build_aug halves a squared norm.  An optional value is a sequence of    *)
(* length 0 (Python's None) or 1.                                          *)
(***************************************************************************)
EXTENDS Integers, Sequences, FiniteSets, TLC

\* ---------------------------------------------------------------- bounds

\* States are 0..XMax.
XMax == 1
\* Finite slack weights are 0..CMax.
CMax == 1
\* How far above the constraint's residual an unpenalised slack may land.
SlackSpread == 1

XS == 0..XMax
TS == {0, 1}
XT == XS \X TS

\* ------------------------------------------------------- values, numpy

\* Python's None, and an optional value that is present.
None == <<>>
Some(v) == <<v>>

\* numpy's Inf as the slack weight, and a finite weight.
Inf == [inf |-> TRUE, w |-> 0]
Weighted(w) == [inf |-> FALSE, w |-> w]
CS == {Inf} \cup {Weighted(w) : w \in 0..CMax}

Abs(n) == IF n < 0 THEN -n ELSE n

Max(a, b) == IF a < b THEN b ELSE a

RECURSIVE SumTo(_, _)
SumTo(f, n) == IF n = 0 THEN 0 ELSE f[n] + SumTo(f, n - 1)

\* numpy.dot of two vectors of one length.
dot(v, w) == SumTo([i \in 1..Len(v) |-> v[i] * w[i]], Len(v))

\* numpy.linalg.norm(v) ** 2.
NormSq(v) == dot(v, v)

identity(m) == [i \in 1..m |-> [j \in 1..m |-> IF i = j THEN 1 ELSE 0]]

zeros(m) == [i \in 1..m |-> 0]

VecAdd(v, w) == [i \in 1..Len(v) |-> v[i] + w[i]]

RECURSIVE MaxAbs(_, _)
MaxAbs(v, n) == IF n = 0 THEN 0 ELSE Max(Abs(v[n]), MaxAbs(v, n - 1))

\* An exact rational, and n / 2 in lowest terms.
Rat(n) == [num |-> n, den |-> 1]
Half(n) == IF n % 2 = 0 THEN Rat(n \div 2) ELSE [num |-> n, den |-> 2]

\* The outcome of calling a closure: it returns a value or raises.
Returns(v) == <<v>>
Raises == <<>>

Const(v) == [xt \in XT |-> v]

\* ------------------------------------------------- shapes of coefficients

IsVec(v, m) == Len(v) = m
IsMat(P, m) == Len(P) = m /\ \A i \in 1..Len(P) : Len(P[i]) = m
ShapesOK(m, P, q, a) == IsMat(P, m) /\ IsVec(q, m) /\ IsVec(a, m)

\* --------------------------------------------------- the QP solve bridge

\* 4 * (1/2 u'Pu + q'u + r): the cost without its slack term.
Cost4(P, q, r, v) ==
    2 * SumTo([i \in 1..Len(v) |-> v[i] * dot(P[i], v)], Len(v))
    + 4 * dot(q, v) + (4 * r.num) \div r.den

\* 2 * a'(P^-1)a for the diagonal Hessians of the model (entries 1 or 2).
Sigma2(P, a) == SumTo([i \in 1..Len(a) |-> a[i] * a[i] * (2 \div P[i][i])], Len(a))

\* The inputs a solve searches: every optimum of the model's problems lies here.
Box(m, q, b) ==
    LET R == MaxAbs(q, Len(q)) + Abs(b)
    IN [1..m -> (-R)..R]

SetMin(S) == CHOOSE n \in S : \A k \in S : n <= k

\* The input of least cost in a non-empty set of inputs.
ArgMin(S, cost) ==
    LET best == SetMin({cost[v] : v \in S})
    IN CHOOSE v \in S : cost[v] = best

\* 4 * the cost of input v with the slack that is best for it: the slack
\* term 1/2 C sigma delta^2 under a'v + b <= delta is least at
\* delta = max(0, a'v + b).
SlackCost4(P, q, r, a, b, C, v) ==
    LET g == Max(0, dot(a, v) + b)
    IN Cost4(P, q, r, v) + C.w * Sigma2(P, a) * g * g

\* solve(m, P, q, r, a, b, C) -> (u, delta), or an error: the outcomes of
\* one invocation.  The input is the optimum; the slack is absent without
\* slack, the optimum when it is penalised, and any slack the constraint
\* admits when its weight C * sigma is zero.
solve_control_qp(m, P, q, r, a, b, C) ==
    IF ~ShapesOK(m, P, q, a)
    THEN {[kind |-> "DimensionError", u |-> None, delta |-> None]}
    ELSE IF C.inf
    THEN LET feasible == {v \in Box(m, q, b) : dot(a, v) + b <= 0}
             cost == [v \in feasible |-> Cost4(P, q, r, v)]
         IN IF feasible = {}
            THEN {[kind |-> "InfeasibilityError", u |-> None, delta |-> None]}
            ELSE {[kind |-> "ok", u |-> ArgMin(feasible, cost), delta |-> None]}
    ELSE LET cost == [w \in Box(m, q, b) |-> SlackCost4(P, q, r, a, b, C, w)]
             v == ArgMin(Box(m, q, b), cost)
             g == dot(a, v) + b
             slacks == IF C.w * Sigma2(P, a) > 0
                       THEN {Max(0, g)}
                       ELSE g..(g + SlackSpread)
         IN {[kind |-> "ok", u |-> v, delta |-> Some(d)] : d \in slacks}

\* ------------------------------------------------ external collaborators

\* A control task output: its input dimension, G.shape[-1].
Output(m) == [m |-> m]

\* A quadratic CLF: V, drift and decoupling as tables, alpha a constant.
QuadraticCLF(g, d, alpha) ==
    [output |-> Output(Len(g)),
     alpha |-> alpha,
     V |-> [xt \in XT |-> xt[1] * xt[1]],
     drift |-> [xt \in XT |-> d * (xt[1] + xt[2])],
     decoupling |-> Const(g)]

CLFs == {QuadraticCLF(g, d, alpha) :
            g \in {<<0>>, <<1>>, <<1, -1>>}, d \in {-1, 0}, alpha \in {1, 2}}

\* The learned CLF adds the residual (a, b) to the decoupling and the drift.
LearnedBuild(clf, a, b) ==
    [clf EXCEPT !.decoupling = [xt \in XT |-> VecAdd(clf.decoupling[xt], a[xt])],
                !.drift = [xt \in XT |-> clf.drift[xt] + b[xt]]]

\* Residual models (a, b) for a CLF: a has the length of its decoupling.
Residuals(clf) ==
    {[a |-> Const(zeros(clf.output.m)), b |-> Const(0)],
     [a |-> Const([i \in 1..clf.output.m |-> 1]), b |-> [xt \in XT |-> xt[2]]]}

\* Nominal controllers: any object with a law u(x, t).
Nominals ==
    {[u |-> Const(<<0>>)], [u |-> Const(<<0, 0>>)],
     [u |-> [xt \in XT |-> <<1 - xt[1]>>]],
     [u |-> [xt \in XT |-> <<xt[1], -xt[2]>>]]}

\* ------------------------------------------------------- QPController

\* __init__: a missing coefficient function gets its default closure.
QPController(output, m, P, q, r, a, b, C) ==
    [output |-> output,
     m |-> m,
     P |-> IF P = None THEN Const(identity(m)) ELSE P,
     q |-> IF q = None THEN Const(zeros(m)) ELSE q,
     r |-> IF r = None THEN Const(Rat(0)) ELSE r,
     a |-> IF a = None THEN Const(zeros(m)) ELSE a,
     b |-> IF b = None THEN Const(Returns(0)) ELSE b,
     C |-> C,
     delta |-> None]

\* build_min_norm with the convergence rate left out of b.
build_min_norm_NoAlpha(clf, C) ==
    QPController(clf.output, clf.output.m, None, None, None, clf.decoupling,
                 [xt \in XT |-> Returns(clf.drift[xt] + clf.V[xt])], C)

\* build_min_norm with the sign of alpha * V slipped.
build_min_norm_SignSlip(clf, C) ==
    QPController(clf.output, clf.output.m, None, None, None, clf.decoupling,
                 [xt \in XT |-> Returns(clf.drift[xt] - clf.alpha * clf.V[xt])], C)

build_min_norm(clf, C) ==
    LET affine_dynamic_output == clf.output
        m == affine_dynamic_output.m
        a == clf.decoupling
        alpha == clf.alpha
        V == clf.V
        b == [xt \in XT |-> Returns(clf.drift[xt] + alpha * V[xt])]
    IN QPController(affine_dynamic_output, m, None, None, None, a, b, C)

\* build_aug with the nominal input's term a'u_c left out of b.
build_aug_NoNominalTerm(nominal_controller, m, clf, a, b, C) ==
    LET learned == LearnedBuild(clf, a, b)
        q == nominal_controller.u
    IN QPController(clf.output, m, None, q,
                    [xt \in XT |-> Half(NormSq(q[xt]))], learned.decoupling,
                    [xt \in XT |-> Returns(learned.drift[xt] + clf.alpha * clf.V[xt])],
                    C)

\* build_aug with V left out of b.
build_aug_NoV(nominal_controller, m, clf, a, b, C) ==
    LET learned == LearnedBuild(clf, a, b)
        q == nominal_controller.u
    IN QPController(clf.output, m, None, q,
                    [xt \in XT |-> Half(NormSq(q[xt]))], learned.decoupling,
                    [xt \in XT |->
                       IF Len(learned.decoupling[xt]) = Len(q[xt])
                       THEN Returns(learned.drift[xt]
                                    + dot(learned.decoupling[xt], q[xt]) + clf.alpha)
                       ELSE Raises],
                    C)

build_aug(nominal_controller, m, clf, a, b, C) ==
    LET learned == LearnedBuild(clf, a, b)
        affine_dynamic_output == clf.output
        q == nominal_controller.u
        r == [xt \in XT |-> Half(NormSq(q[xt]))]
        a2 == learned.decoupling
        alpha == clf.alpha
        V == clf.V
        \* numpy.dot raises on vectors of different lengths
        b2 == [xt \in XT |->
                 IF Len(a2[xt]) = Len(q[xt])
                 THEN Returns(learned.drift[xt] + dot(a2[xt], q[xt]) + alpha * V[xt])
                 ELSE Raises]
    IN QPController(affine_dynamic_output, m, None, q, r, a2, b2, C)

\* ----------------------------------------------------------------- state

VARIABLES
    pc,      \* "unbuilt" until the controller is constructed, then "built"
    ctrl,    \* the controller object
    given,   \* the controller as its construction left it
    built,   \* how it was constructed, and from what
    bridge,  \* the solve bridge: its latest invocation, and what it last returned
    ret      \* how the latest call of u ended, and delta as that call found it

vars == <<pc, ctrl, given, built, bridge, ret>>

NoArgs == [m |-> 0, P |-> <<>>, q |-> <<>>, r |-> Rat(0), a |-> <<>>, b |-> 0, C |-> Inf]
NoOut == [kind |-> "none", u |-> None, delta |-> None]
NoBridge == [solves |-> 0, args |-> NoArgs, out |-> NoOut,
             returned |-> FALSE, slack |-> None]
NoRet == [kind |-> "none", x |-> 0, t |-> 0, u |-> None, pre |-> None]
NoCLF == QuadraticCLF(<<>>, 0, 0)
NoBuilt == [kind |-> "none", clf |-> NoCLF, nominal |-> [u |-> Const(<<>>)],
            m |-> 0, a |-> Const(<<>>), b |-> Const(0), C |-> Inf]

Init ==
    /\ pc = "unbuilt"
    /\ ctrl = QPController(Output(0), 0, None, None, None, None, None, Inf)
    /\ given = ctrl
    /\ built = NoBuilt
    /\ bridge = NoBridge
    /\ ret = NoRet

\* --------------------------------------------------------- construction

\* Coefficient functions a caller may hand to the constructor.
GivenP == {None, Const(<<<<2>>>>), Const(<<<<1, 0>>>>)}
GivenQ == {None, Const(<<1>>), [xt \in XT |-> IF xt[2] = 0 THEN <<xt[1], -1>> ELSE <<1>>]}
GivenR == {None, Const(Rat(1))}
GivenA == {None, Const(<<1>>), [xt \in XT |-> <<xt[2], 1>>]}
GivenB == {None, [xt \in XT |-> Returns(xt[1] - xt[2])]}

New(m, P, q, r, a, b, C) ==
    /\ pc = "unbuilt"
    /\ pc' = "built"
    /\ ctrl' = QPController(Output(m), m, P, q, r, a, b, C)
    /\ given' = ctrl'
    /\ built' = [NoBuilt EXCEPT !.kind = "init", !.m = m, !.C = C]
    /\ UNCHANGED <<bridge, ret>>

MinNorm(clf, C) ==
    /\ pc = "unbuilt"
    /\ pc' = "built"
    /\ ctrl' = build_min_norm(clf, C)
    /\ given' = ctrl'
    /\ built' = [NoBuilt EXCEPT !.kind = "min_norm", !.clf = clf,
                                !.m = clf.output.m, !.C = C]
    /\ UNCHANGED <<bridge, ret>>

Aug(nominal, m, clf, res, C) ==
    /\ pc = "unbuilt"
    /\ pc' = "built"
    /\ ctrl' = build_aug(nominal, m, clf, res.a, res.b, C)
    /\ given' = ctrl'
    /\ built' = [kind |-> "aug", clf |-> clf, nominal |-> nominal, m |-> m,
                 a |-> res.a, b |-> res.b, C |-> C]
    /\ UNCHANGED <<bridge, ret>>

\* --------------------------------------------------------- the control law

\* u evaluating the constraint at time 0 whatever t is.
UArgs_StaleTime(c, x, t) ==
    [m |-> c.m, P |-> c.P[<<x, t>>], q |-> c.q[<<x, t>>], r |-> c.r[<<x, t>>],
     a |-> c.a[<<x, 0>>], b |-> c.b[<<x, 0>>], C |-> c.C]

\* u cutting or padding q and a to length m before the solve.
UArgs_Reshaped(c, x, t) ==
    LET fit(v) == [i \in 1..c.m |-> IF i <= Len(v) THEN v[i] ELSE 0]
    IN [m |-> c.m, P |-> c.P[<<x, t>>], q |-> fit(c.q[<<x, t>>]),
        r |-> c.r[<<x, t>>], a |-> fit(c.a[<<x, t>>]), b |-> c.b[<<x, t>>],
        C |-> c.C]

\* u tightening the constraint by the slack of the call before.
UArgs_WarmStart(c, x, t) ==
    [m |-> c.m, P |-> c.P[<<x, t>>], q |-> c.q[<<x, t>>], r |-> c.r[<<x, t>>],
     a |-> c.a[<<x, t>>],
     b |-> IF c.b[<<x, t>>] = Raises \/ c.delta = None THEN c.b[<<x, t>>]
           ELSE Returns(c.b[<<x, t>>][1] + c.delta[1]),
     C |-> c.C]

\* What u evaluates at (x, t) and hands to the bridge, in its order.
UArgs(c, x, t) ==
    [m |-> c.m, P |-> c.P[<<x, t>>], q |-> c.q[<<x, t>>], r |-> c.r[<<x, t>>],
     a |-> c.a[<<x, t>>], b |-> c.b[<<x, t>>], C |-> c.C]

\* The invocations of the bridge that one call of u makes once its
\* coefficients are evaluated.
Invocations(args) == 1

\* u resetting the slack weight along with the slack.
StoreSlack_Clobber(c, out) ==
    IF out.kind = "ok" THEN [c EXCEPT !.delta = out.delta, !.C = Weighted(0)] ELSE c

\* u clearing delta when the solve fails.
StoreSlack_OnFailure(c, out) == [c EXCEPT !.delta = out.delta]

\* u_qp, self.delta = ...: the assignment happens when the bridge returns.
StoreSlack(c, out) == IF out.kind = "ok" THEN [c EXCEPT !.delta = out.delta] ELSE c

\* u answering an infeasible problem with the zero input.
UReturn_Fallback(out, x, t, pre) ==
    IF out.kind = "InfeasibilityError"
    THEN [kind |-> "ok", x |-> x, t |-> t, u |-> zeros(1), pre |-> pre]
    ELSE [kind |-> out.kind, x |-> x, t |-> t, u |-> out.u, pre |-> pre]

\* return u_qp; an error of the bridge is not caught.
UReturn(out, x, t, pre) ==
    [kind |-> out.kind, x |-> x, t |-> t, u |-> out.u, pre |-> pre]

u(x, t) ==
    /\ pc = "built"
    /\ LET e == UArgs(ctrl, x, t)
       IN IF e.b = Raises
          THEN /\ ret' = [kind |-> "ValueError", x |-> x, t |-> t, u |-> None,
                          pre |-> ctrl.delta]
               /\ bridge' = [bridge EXCEPT !.solves = 0, !.args = NoArgs, !.out = NoOut]
               /\ UNCHANGED ctrl
          ELSE LET args == [e EXCEPT !.b = e.b[1]]
               IN \E out \in solve_control_qp(args.m, args.P, args.q, args.r,
                                              args.a, args.b, args.C) :
                    /\ bridge' = [solves |-> Invocations(args), args |-> args,
                                  out |-> out,
                                  returned |-> bridge.returned \/ out.kind = "ok",
                                  slack |-> IF out.kind = "ok" THEN out.delta
                                            ELSE bridge.slack]
                    /\ ctrl' = StoreSlack(ctrl, out)
                    /\ ret' = UReturn(out, x, t, ctrl.delta)
    /\ UNCHANGED <<pc, given, built>>

Next ==
    \/ \E m \in 1..2, P \in GivenP, q \in GivenQ, r \in GivenR, a \in GivenA,
          b \in GivenB, C \in CS : New(m, P, q, r, a, b, C)
    \/ \E clf \in CLFs, C \in CS : MinNorm(clf, C)
    \/ \E nominal \in Nominals, m \in 1..2, clf \in CLFs, C \in CS :
          \E res \in Residuals(clf) : Aug(nominal, m, clf, res, C)
    \/ \E x \in XS, t \in TS : u(x, t)

Spec == Init /\ [][Next]_vars

\* ------------------------------------------------------------ properties

\* Where the latest call of u was made.
At == <<ret.x, ret.t>>

\* C1: when u(x, t) returns, the returned input and the stored slack meet
\* a(x,t)'u + b(x,t) <= delta for the controller's own a and b at that
\* (x, t); without slack (C = Inf) delta is absent and a(x,t)'u + b(x,t) <= 0.
C1_ConstraintHolds ==
    ret.kind = "ok" =>
        LET a == ctrl.a[At]
            b == ctrl.b[At]
        IN /\ b /= Raises
           /\ Len(a) = Len(ret.u)
           /\ IF ctrl.C.inf
              THEN ctrl.delta = None /\ dot(a, ret.u) + b[1] <= 0
              ELSE ctrl.delta /= None /\ dot(a, ret.u) + b[1] <= ctrl.delta[1]

\* A call returned with a positive slack that the constraint needs.
C1_Witness ==
    /\ ret.kind = "ok"
    /\ ~ctrl.C.inf
    /\ ctrl.delta /= None
    /\ ctrl.delta[1] > 0
    /\ dot(ctrl.a[At], ret.u) + ctrl.b[At][1] = ctrl.delta[1]
    /\ ret.t = 1

\* C2: without slack, when no input meets a(x,t)'u + b(x,t) <= 0 (a is the
\* zero vector and b is positive), u returns no input: the bridge's
\* infeasibility error reaches the caller as it is, and the bridge was
\* invoked exactly once.
C2_InfeasibilityPropagates ==
    (/\ ret.kind /= "none"
     /\ given.C.inf
     /\ given.b[At] /= Raises
     /\ ShapesOK(given.m, given.P[At], given.q[At], given.a[At])
     /\ given.a[At] = zeros(given.m)
     /\ given.b[At][1] > 0)
    => /\ ret.kind = "InfeasibilityError"
       /\ ret.u = None
       /\ bridge.solves = 1
       /\ bridge.out.kind = "InfeasibilityError"
       /\ ctrl.delta = ret.pre

\* The spec's scenario: a = [0], b = 1, no slack, and the call failed.
C2_Witness ==
    /\ ret.kind = "InfeasibilityError"
    /\ given.C.inf
    /\ given.a[At] = <<0>>
    /\ given.b[At] = Returns(1)

\* The coefficients at the latest call's (x, t) do not fit m.
Misshapen ==
    /\ ret.kind /= "none"
    /\ ~ShapesOK(given.m, given.P[At], given.q[At], given.a[At])

C4_OnlyDeltaChanges ==
    pc = "built" =>
        /\ ctrl.m = given.m
        /\ ctrl.P = given.P
        /\ ctrl.q = given.q
        /\ ctrl.r = given.r
        /\ ctrl.a = given.a
        /\ ctrl.b = given.b
        /\ ctrl.C = given.C
        /\ ctrl.output = given.output

\* A call changed delta, twice.
C4_Witness ==
    /\ ret.kind = "ok"
    /\ ret.pre /= None
    /\ ctrl.delta /= ret.pre
    /\ ctrl.delta /= given.delta

\* C5: the input u(x, t) returns is the input the same call returns on the
\* controller as constructed, with no call before it and delta still None:
\* neither the calls made before nor the cached delta change it.
C5_HistoryIndependent ==
    (ret.kind = "ok" /\ given.b[At] /= Raises) =>
        \A fresh \in solve_control_qp(given.m, given.P[At], given.q[At], given.r[At],
                                      given.a[At], given.b[At][1], given.C) :
            fresh.kind = "ok" /\ fresh.u = ret.u

\* A call returned a non-zero input while delta held a non-zero slack of a
\* call before.
C5_Witness ==
    /\ ret.kind = "ok"
    /\ ret.pre /= None
    /\ ret.pre /= Some(0)
    /\ ret.u /= zeros(Len(ret.u))

\* C6: the controller of build_min_norm(clf, C) hands the bridge P = I,
\* q = 0, r = 0, a = decoupling(x,t), b = drift(x,t) + alpha * V(x,t) and C,
\* with m the input dimension of the CLF's output.
C6_MinNormCoefficients ==
    (built.kind = "min_norm" /\ ret.kind /= "none") =>
        /\ bridge.solves = 1
        /\ bridge.args =
              [m |-> built.clf.output.m,
               P |-> identity(built.clf.output.m),
               q |-> zeros(built.clf.output.m),
               r |-> Rat(0),
               a |-> built.clf.decoupling[At],
               b |-> built.clf.drift[At] + built.clf.alpha * built.clf.V[At],
               C |-> built.C]

\* A min-norm controller of two inputs was called where alpha * V matters.
C6_Witness ==
    /\ built.kind = "min_norm"
    /\ bridge.solves = 1
    /\ bridge.args.m = 2
    /\ built.clf.alpha = 2
    /\ built.clf.V[At] > 0
    /\ built.clf.drift[At] < 0

ZeroAug ==
    /\ built.kind = "aug"
    /\ built.m = built.clf.output.m
    /\ \A xt \in XT : /\ built.nominal.u[xt] = zeros(built.m)
                      /\ built.a[xt] = zeros(built.m)
                      /\ built.b[xt] = 0

C9_MinNorm ==
    (built.kind = "min_norm" /\ built.C.inf /\ ret.kind /= "none") =>
        LET a == built.clf.decoupling[At]
            b == built.clf.drift[At] + built.clf.alpha * built.clf.V[At]
            far == Abs(b) + 1
        IN /\ ret.kind = "ok" =>
                /\ dot(a, ret.u) + b <= 0
                /\ \A v \in [1..built.m -> (-far)..far] :
                      dot(a, v) + b <= 0 => NormSq(ret.u) <= NormSq(v)
           /\ (built.clf = QuadraticCLF(<<1>>, 0, 1) /\ At = <<1, 0>>) =>
                 ret.kind = "ok" /\ ret.u = <<-1>>

\* The spec's instance was called at x = 1, t = 0.
C9_Witness ==
    /\ built.kind = "min_norm"
    /\ built.C.inf
    /\ built.clf = QuadraticCLF(<<1>>, 0, 1)
    /\ At = <<1, 0>>
    /\ ret.u = <<-1>>

\* C10: delta is None until a call of u has returned, and from then on the
\* slack the bridge returned in the latest call that returned; a call whose
\* solve fails leaves delta as it found it.
C10_DeltaIsLatestSlack ==
    /\ ~bridge.returned => ctrl.delta = None
    /\ bridge.returned => ctrl.delta = bridge.slack
    /\ ret.kind = "ok" => ctrl.delta = bridge.out.delta
    /\ ret.kind \notin {"none", "ok"} => ctrl.delta = ret.pre

\* A call failed after a call that had returned a slack, and delta kept it.
C10_Witness ==
    /\ ret.kind = "DimensionError"
    /\ bridge.returned
    /\ ret.pre /= None
    /\ ctrl.delta = ret.pre

====
